---------------------------- MODULE Spec2Model ----------------------------
(***************************************************************************)
(* A model of the two programs of lxi-tools:                               *)
(*                                                                         *)
(*   - parse_options (src/options.c), the command-line parser of `lxi`,    *)
(*     driven by GNU getopt_long;                                          *)
(*   - capture_screenshot and main (src/rigol_1000z_screenshot.c), which   *)
(*     fetch a TMC block from an instrument, strip its header and its      *)
(*     terminator and dump the payload to a file.                          *)
(*                                                                         *)
(* C strings are sequences of one-character strings; the byte 0 is the     *)
(* string "NUL".  argv keeps C's indices: Arg(argv, 0) is the program      *)
(* name.  One behaviour is one run of one of the two programs (prog).      *)
(***************************************************************************)
EXTENDS Integers, Sequences, FiniteSets, TLC

(***************************************************************************)
(* C library: strings                                                      *)
(***************************************************************************)
Digits == <<"0", "1", "2", "3", "4", "5", "6", "7", "8", "9">>

IsDigit(ch) == \E i \in 1..10 : Digits[i] = ch

DigitVal(ch) == (CHOOSE i \in 1..10 : Digits[i] = ch) - 1

\* isspace() of the C locale; "\v" is written "VT".
IsSpace(ch) == ch \in {" ", "\t", "\n", "\r", "\f", "VT"}

Min(a, b) == IF a < b THEN a ELSE b

RECURSIVE SkipSpace(_, _)
SkipSpace(s, i) ==
    IF i <= Len(s) /\ IsSpace(s[i]) THEN SkipSpace(s, i + 1) ELSE i

RECURSIVE ParseDigits(_, _, _)
ParseDigits(s, i, acc) ==
    IF i <= Len(s) /\ IsDigit(s[i])
    THEN ParseDigits(s, i + 1, 10 * acc + DigitVal(s[i]))
    ELSE acc

\* atoi(s): optional white space, an optional sign, then decimal digits up
\* to the first character that is no digit (the terminating NUL included);
\* 0 when there is no digit.  s holds the characters atoi can read.
atoi(s) ==
    LET i == SkipSpace(s, 1)
        signed == i <= Len(s) /\ s[i] \in {"-", "+"}
        v == ParseDigits(s, IF signed THEN i + 1 ELSE i, 0)
    IN  IF signed /\ s[i] = "-" THEN 0 - v ELSE v

\* strncpy(dst, src, n) for a source that is a NUL-terminated string: the
\* first n characters of src at most.
strncpy(src, n) == SubSeq(src, 1, Min(Len(src), n))

\* The size argument of both strncpy calls of parse_options.
StrncpyMax == 500

(***************************************************************************)
(* C library: GNU getopt_long, default ordering (PERMUTE: neither the      *)
(* option string starts with '+' or '-' nor is POSIXLY_CORRECT set).       *)
(* gs is getopt's private data: initialized, nextchar (the 1-based         *)
(* position in Arg(argv, optind) of the next short option character, 0    *)
(* for none), first_nonopt and last_nonopt (the block of non-options      *)
(* skipped so far).  The return value c is a one-character string, or     *)
(* "-1".                                                                   *)
(***************************************************************************)
Arg(argv, i) == argv[i + 1]

Argc(argv) == Len(argv)

NonOption(tok) == Len(tok) = 0 \/ tok[1] # "-" \/ Len(tok) = 1

\* exchange(): the options in [last_nonopt, optind) move in front of the
\* non-options in [first_nonopt, last_nonopt).
Exchange(argv, first_nonopt, last_nonopt, optind) ==
    SubSeq(argv, 1, first_nonopt)
      \o SubSeq(argv, last_nonopt + 1, optind)
      \o SubSeq(argv, first_nonopt + 1, last_nonopt)
      \o SubSeq(argv, optind + 1, Len(argv))

RECURSIVE SkipNonOptions(_, _)
SkipNonOptions(argv, i) ==
    IF i < Argc(argv) /\ NonOption(Arg(argv, i))
    THEN SkipNonOptions(argv, i + 1)
    ELSE i

\* strchr(optstring, c): the position of c in the option string, 0 for none.
RECURSIVE StrChr(_, _, _)
StrChr(s, ch, i) ==
    IF i > Len(s) THEN 0
    ELSE IF s[i] = ch THEN i
    ELSE StrChr(s, ch, i + 1)

IsPrefix(p, s) == Len(p) <= Len(s) /\ SubSeq(s, 1, Len(p)) = p

\* The end of the name of a long option: the position of '=' or Len + 1.
RECURSIVE NameEnd(_, _)
NameEnd(tok, i) ==
    IF i > Len(tok) \/ tok[i] = "=" THEN i ELSE NameEnd(tok, i + 1)

\* process_long_option(): exact match first, then an abbreviation that is
\* not ambiguous; optind is already the index of the "--name" element.
ProcessLongOption(argv, optind, gs, longopts) ==
    LET tok == Arg(argv, optind)
        nameend == NameEnd(tok, 3)
        name == SubSeq(tok, 3, nameend - 1)
        exact == {k \in 1..Len(longopts) : longopts[k].name = name}
        abbrev == {k \in 1..Len(longopts) : IsPrefix(name, longopts[k].name)}
        first == CHOOSE k \in abbrev : \A m \in abbrev : k <= m
        ambiguous == exact = {} /\ \E k \in abbrev :
                        \/ longopts[k].has_arg # longopts[first].has_arg
                        \/ longopts[k].val # longopts[first].val
        found == IF exact # {} THEN CHOOSE k \in exact : \A m \in exact : k <= m
                 ELSE IF abbrev # {} /\ ~ambiguous THEN first
                 ELSE 0
        g0 == [gs EXCEPT !.nextchar = 0]
    IN  IF found = 0
        THEN [c |-> "?", argv |-> argv, optind |-> optind + 1,
              optarg |-> <<>>, gs |-> g0]
        ELSE IF nameend <= Len(tok)
        THEN IF longopts[found].has_arg = 1
             THEN [c |-> longopts[found].val, argv |-> argv,
                   optind |-> optind + 1,
                   optarg |-> SubSeq(tok, nameend + 1, Len(tok)), gs |-> g0]
             ELSE [c |-> "?", argv |-> argv, optind |-> optind + 1,
                   optarg |-> <<>>, gs |-> g0]
        ELSE IF longopts[found].has_arg = 1
        THEN IF optind + 1 < Argc(argv)
             THEN [c |-> longopts[found].val, argv |-> argv,
                   optind |-> optind + 2,
                   optarg |-> Arg(argv, optind + 1), gs |-> g0]
             ELSE [c |-> "?", argv |-> argv, optind |-> optind + 1,
                   optarg |-> <<>>, gs |-> g0]
        ELSE [c |-> longopts[found].val, argv |-> argv,
              optind |-> optind + 1, optarg |-> <<>>, gs |-> g0]

\* The next short option character of Arg(argv, optind), at gs.nextchar.
ProcessShortOption(argv, optind, gs, optstring) ==
    LET tok == Arg(argv, optind)
        ch == tok[gs.nextchar]
        nc == gs.nextchar + 1
        last == nc > Len(tok)
        oi == IF last THEN optind + 1 ELSE optind
        temp == StrChr(optstring, ch, 1)
        rest == [gs EXCEPT !.nextchar = IF last THEN 0 ELSE nc]
        g0 == [gs EXCEPT !.nextchar = 0]
    IN  IF temp = 0 \/ ch \in {":", ";"}
        THEN [c |-> "?", argv |-> argv, optind |-> oi, optarg |-> <<>>,
              gs |-> rest]
        ELSE IF temp < Len(optstring) /\ optstring[temp + 1] = ":"
        THEN IF ~last
             THEN [c |-> ch, argv |-> argv, optind |-> oi + 1,
                   optarg |-> SubSeq(tok, nc, Len(tok)), gs |-> g0]
             ELSE IF oi = Argc(argv)
             THEN [c |-> "?", argv |-> argv, optind |-> oi, optarg |-> <<>>,
                   gs |-> g0]
             ELSE [c |-> ch, argv |-> argv, optind |-> oi + 1,
                   optarg |-> Arg(argv, oi), gs |-> g0]
        ELSE [c |-> ch, argv |-> argv, optind |-> oi, optarg |-> <<>>,
              gs |-> rest]

\* "Advance to the next ARGV-element": permute the non-options skipped so
\* far behind the options just read, skip further non-options, treat "--".
NextElement(argv, optind, gs, optstring, longopts) ==
    LET argc == Argc(argv)
        ln1 == Min(gs.last_nonopt, optind)
        fn1 == Min(gs.first_nonopt, optind)
        ex1 == fn1 # ln1 /\ ln1 # optind
        argv2 == IF ex1 THEN Exchange(argv, fn1, ln1, optind) ELSE argv
        fn2 == IF ex1 THEN fn1 + (optind - ln1)
               ELSE IF ln1 # optind THEN optind ELSE fn1
        oi2 == SkipNonOptions(argv2, optind)
        ln2 == oi2
        dashes == oi2 # argc /\ Arg(argv2, oi2) = <<"-", "-">>
        ex2 == dashes /\ fn2 # ln2
        argv3 == IF ex2 THEN Exchange(argv2, fn2, ln2, oi2 + 1) ELSE argv2
        fn3 == IF ex2 THEN fn2 + 1
               ELSE IF dashes THEN oi2 + 1 ELSE fn2
        ln3 == IF dashes THEN argc ELSE ln2
        oi3 == IF dashes THEN argc ELSE oi2
        g3 == [gs EXCEPT !.first_nonopt = fn3, !.last_nonopt = ln3,
                         !.nextchar = 0]
    IN  IF oi3 = argc
        THEN [c |-> "-1", argv |-> argv3,
              optind |-> IF fn3 # ln3 THEN fn3 ELSE oi3,
              optarg |-> <<>>, gs |-> g3]
        ELSE IF Arg(argv3, oi3)[2] = "-"
        THEN ProcessLongOption(argv3, oi3, g3, longopts)
        ELSE ProcessShortOption(argv3, oi3, [g3 EXCEPT !.nextchar = 2],
                                optstring)

getopt_long(argv, optind, gs, optstring, longopts) ==
    LET g1 == IF gs.initialized THEN gs
              ELSE [initialized |-> TRUE, nextchar |-> 0,
                    first_nonopt |-> optind, last_nonopt |-> optind]
    IN  IF Argc(argv) < 1
        THEN [c |-> "-1", argv |-> argv, optind |-> optind, optarg |-> <<>>,
              gs |-> g1]
        ELSE IF g1.nextchar = 0
        THEN NextElement(argv, optind, g1, optstring, longopts)
        ELSE ProcessShortOption(argv, optind, g1, optstring)

(***************************************************************************)
(* src/options.c: the option record and the getopt tables                  *)
(***************************************************************************)
DISCOVER == "DISCOVER"

SCPI == "SCPI"

EXIT_SUCCESS == 0

EXIT_FAILURE == 1

\* struct option_t option = { SCPI, 1, "", "*IDN?", false, false, "", false,
\* false }
DefaultOption ==
    [command |-> SCPI, timeout |-> 1, ip |-> <<>>,
     scpi_command |-> <<"*", "I", "D", "N", "?">>,
     dump_hex |-> FALSE, dump_file |-> FALSE, filename |-> <<>>,
     interactive |-> FALSE, run_script |-> FALSE]

LongOpt(name, has_arg, val) == [name |-> name, has_arg |-> has_arg, val |-> val]

DiscoverLongOptions ==
    << LongOpt(<<"t", "i", "m", "e", "o", "u", "t">>, 1, "t") >>

ScpiLongOptions ==
    << LongOpt(<<"t", "i", "m", "e", "o", "u", "t">>, 1, "t"),
       LongOpt(<<"i", "p">>, 1, "i"),
       LongOpt(<<"d", "u", "m", "p", "-", "h", "e", "x">>, 0, "x"),
       LongOpt(<<"d", "u", "m", "p", "-", "f", "i", "l", "e">>, 1, "f"),
       LongOpt(<<"i", "n", "t", "e", "r", "a", "c", "t", "i", "v", "e">>, 0, "a"),
       LongOpt(<<"r", "u", "n", "-", "s", "c", "r", "i", "p", "t">>, 1, "r") >>

GlobalLongOptions ==
    << LongOpt(<<"v", "e", "r", "s", "i", "o", "n">>, 0, "v"),
       LongOpt(<<"h", "e", "l", "p">>, 0, "h") >>

\* "t:" (lines 112 and 124)
DiscoverOptstring == <<"t", ":">>

\* "i:t:xf:ar:" (line 143, the call before the loop)
ScpiOptstringFirst == <<"i", ":", "t", ":", "x", "f", ":", "a", "r", ":">>

\* "t:" (line 178, the call that ends each iteration of the scpi loop)
ScpiOptstringNext == <<"t", ":">>

\* "vh" (lines 193 and 210)
GlobalOptstring == <<"v", "h">>

(***************************************************************************)
(* The argument lists the runs of lxi start from: the program name, then   *)
(* no command or one, then up to MaxUnits units, a unit being a flag with  *)
(* its value, a flag alone or a positional argument.                       *)
(***************************************************************************)
T_prog == <<"l", "x", "i">>

T_discover == <<"d", "i", "s", "c", "o", "v", "e", "r">>

T_scpi == <<"s", "c", "p", "i">>

T_i == <<"-", "i">>

T_ip == <<"-", "-", "i", "p">>

T_t == <<"-", "t">>

T_timeout == <<"-", "-", "t", "i", "m", "e", "o", "u", "t">>

T_x == <<"-", "x">>

T_dump_hex == <<"-", "-", "d", "u", "m", "p", "-", "h", "e", "x">>

T_f == <<"-", "f">>

T_dump_file == <<"-", "-", "d", "u", "m", "p", "-", "f", "i", "l", "e">>

T_a == <<"-", "a">>

T_interactive == <<"-", "-", "i", "n", "t", "e", "r", "a", "c", "t", "i", "v", "e">>

T_r == <<"-", "r">>

T_run_script == <<"-", "-", "r", "u", "n", "-", "s", "c", "r", "i", "p", "t">>

T_v == <<"-", "v">>

T_help == <<"-", "-", "h", "e", "l", "p">>

T_bogus == <<"-", "-", "b", "o", "g", "u", "s">>

T_dashes == <<"-", "-">>

V_addr == <<"1", "9", "2", ".", "0", ".", "2", ".", "5">>

V_two == <<"2">>

V_zero == <<"0">>

V_minus5 == <<"-", "5">>

V_abc == <<"a", "b", "c">>

V_out == <<"o", "u", "t">>

V_script == <<"r", "u", "n">>

V_rst == <<"*", "R", "S", "T">>

T_shot == <<"s", "h", "o", "t">>

Commands == {<<>>, <<T_discover>>, <<T_scpi>>}

Units ==
    { <<T_i, V_addr>>, <<T_ip, V_addr>>,
      <<T_t, V_two>>, <<T_timeout, V_zero>>, <<T_t, V_minus5>>,
      <<T_timeout, V_abc>>, <<T_t>>,
      <<T_x>>,
      <<T_f, V_out>>, <<T_dump_file, V_out>>,
      <<T_a>>, <<T_interactive>>,
      <<T_r, V_script>>, <<T_run_script, V_script>>,
      <<T_v>>, <<T_help>>, <<T_bogus>>, <<T_dashes>>,
      <<V_rst>> }

MaxUnits == 3

RECURSIVE UnitLists(_)
UnitLists(k) ==
    IF k = 0 THEN {<<>>}
    ELSE LET shorter == UnitLists(k - 1)
         IN  shorter \cup {l \o u : l \in shorter, u \in Units}

ArgLists == {<<T_prog>> \o cmd \o l : cmd \in Commands, l \in UnitLists(MaxUnits)}

(***************************************************************************)
(* The inputs of rigol_1000z_screenshot: its argument list, and what the   *)
(* instrument answers: a TMC block ('#', a digit n, n digits giving the    *)
(* length of the payload, the payload, one terminator), a bare payload, or *)
(* a few arbitrary bytes.                                                  *)
(***************************************************************************)
ShotArgLists ==
    { <<T_shot>>, <<T_shot, V_addr>>, <<T_shot, V_addr, V_out>>,
      <<T_shot, V_addr, V_out, V_out>> }

PayloadBytes == {"H", "E", "L", "O"}

RawBytes == {"#", "1", "9", "H", "\n"}

MaxPayload == 5

MaxLenDigits == 2

MaxRaw == 3

RECURSIVE SeqsUpTo(_, _)
SeqsUpTo(S, k) ==
    IF k = 0 THEN {<<>>}
    ELSE LET shorter == SeqsUpTo(S, k - 1)
         IN  shorter \cup {q \o <<b>> : q \in shorter, b \in S}

\* v in decimal, in k digits.
RECURSIVE DecDigits(_, _)
DecDigits(v, k) ==
    IF k = 0 THEN <<>> ELSE DecDigits(v \div 10, k - 1) \o <<Digits[(v % 10) + 1]>>

Frame(k, payload) ==
    <<"#", Digits[k + 1]>> \o DecDigits(Len(payload), k) \o payload \o <<"\n">>

Payloads == SeqsUpTo(PayloadBytes, MaxPayload)

Frames == {Frame(k, payload) : k \in 1..MaxLenDigits, payload \in Payloads}

Replies == Frames \cup Payloads \cup SeqsUpTo(RawBytes, MaxRaw)

\* The size of the array response: the model's stand-in for liblxi's
\* LXI_MESSAGE_LENGTH_MAX, large enough for every reply.
LXI_MESSAGE_LENGTH_MAX == 12

\* liblxi's error value (lxi_connect, lxi_send and lxi_receive return it).
LXI_ERROR == 0 - 1

\* What an int that was never assigned may hold.
Uninitialized == {0 - 1, 0, 4}

\* What the bytes behind the one-byte object c may hold when atoi(&c) reads
\* on past it: no digit at once, or a digit and then none.
BehindC == {<<"NUL">>, <<"7", "NUL">>}

(***************************************************************************)
(* State                                                                   *)
(***************************************************************************)
VARIABLES
    prog,         \* "lxi" or "shot" (rigol_1000z_screenshot): the program run
    pc,           \* the place the program is at
    argv0,        \* the argument list as the program was started with it
    exit_status,  \* the status the process ended with, once pc = "exited"
    diag,         \* the last message printed
    \* lxi (src/options.c)
    argv,         \* argv, which getopt_long permutes
    optind,       \* getopt's optind
    gs,           \* getopt's private data
    option,       \* the global struct option_t option
    \* rigol_1000z_screenshot: the locals of capture_screenshot
    device,       \* what lxi_connect returned
    response,     \* char response[LXI_MESSAGE_LENGTH_MAX], indexed from 0
    length,       \* int length
    n,            \* int n
    response_p,   \* char *response_p, as an offset into response
    \* rigol_1000z_screenshot: its environment
    io,           \* how lxi_connect, lxi_send and lxi_receive ended
    wire,         \* the bytes lxi_receive delivered
    file          \* the output file: whether it exists, and its content

lxiVars == <<argv, optind, gs, option>>

shotVars == <<device, response, length, n, response_p, io, wire, file>>

vars == <<prog, pc, argv0, exit_status, diag, lxiVars, shotVars>>

GetoptInit ==
    [initialized |-> FALSE, nextchar |-> 0, first_nonopt |-> 0,
     last_nonopt |-> 0]

NoFile == [exists |-> FALSE, data |-> <<>>]

NoIo == [connect |-> "none", send |-> "none", receive |-> "none"]

\* char response[LXI_MESSAGE_LENGTH_MAX] = ""
EmptyResponse == [k \in 0..(LXI_MESSAGE_LENGTH_MAX - 1) |-> "NUL"]

\* A run of lxi starts in parse_options; option holds its initializer and
\* optind is 1, as the C library sets it.
InitLxi ==
    /\ prog = "lxi"
    /\ pc = "parse_options"
    /\ argv0 \in ArgLists
    /\ length = 0

\* A run of rigol_1000z_screenshot starts in main; length is declared
\* without a value.
InitShot ==
    /\ prog = "shot"
    /\ pc = "main"
    /\ argv0 \in ShotArgLists
    /\ length \in Uninitialized

Init ==
    /\ (InitLxi \/ InitShot)
    /\ argv = argv0
    /\ optind = 1
    /\ gs = GetoptInit
    /\ option = DefaultOption
    /\ exit_status = EXIT_SUCCESS
    /\ diag = ""
    /\ device = 0
    /\ response = EmptyResponse
    /\ n = 0
    /\ response_p = 0
    /\ io = NoIo
    /\ wire = <<>>
    /\ file = NoFile

(***************************************************************************)
(* src/options.c: parse_options                                            *)
(***************************************************************************)
Exit(status, message) ==
    /\ pc' = "exited"
    /\ exit_status' = status
    /\ diag' = message

\* Lines 89-103, 127-129, 180-183: help for an empty argument list, then the
\* choice of the branch by argv[1].
ParseEntry ==
    /\ prog = "lxi"
    /\ pc = "parse_options"
    /\ IF Argc(argv) = 1
       THEN /\ Exit(EXIT_SUCCESS, "help")
            /\ UNCHANGED <<optind, option>>
       ELSE IF Arg(argv, 1) = T_discover
       THEN /\ optind' = 2
            /\ option' = [option EXCEPT !.command = DISCOVER]
            /\ pc' = "discover"
            /\ UNCHANGED <<exit_status, diag>>
       ELSE IF Arg(argv, 1) = T_scpi
       THEN /\ optind' = 2
            /\ option' = [option EXCEPT !.command = SCPI]
            /\ pc' = "scpi_first"
            /\ UNCHANGED <<exit_status, diag>>
       ELSE /\ optind' = 1
            /\ pc' = "global"
            /\ UNCHANGED <<option, exit_status, diag>>
    /\ UNCHANGED <<prog, argv0, argv, gs, shotVars>>

\* Lines 116-123: the switch of the discover loop.
DiscoverSwitch(opt, c, optarg) ==
    IF c = "t" THEN [opt EXCEPT !.timeout = atoi(optarg)] ELSE opt

\* Lines 147-177: the switch of the scpi loop.
ScpiSwitch(opt, c, optarg) ==
    CASE c = "t" -> [opt EXCEPT !.timeout = atoi(optarg)]
      [] c = "i" -> [opt EXCEPT !.ip = strncpy(optarg, StrncpyMax)]
      [] c = "x" -> [opt EXCEPT !.dump_hex = TRUE]
      [] c = "f" -> [opt EXCEPT !.dump_file = TRUE, !.filename = optarg]
      [] c = "a" -> [opt EXCEPT !.interactive = TRUE]
      [] c = "r" -> [opt EXCEPT !.run_script = TRUE, !.filename = optarg]
      [] OTHER -> opt

\* One getopt_long call and the loop body that follows it: -1 leaves the
\* loop, '?' exits, any other value goes through the switch and stays.
\* `after` is the place the loop continues at.
OptionStep(r, opt, after) ==
    /\ argv' = r.argv
    /\ optind' = r.optind
    /\ gs' = r.gs
    /\ IF r.c = "-1"
       THEN /\ pc' = "inline_command"
            /\ UNCHANGED <<option, exit_status, diag>>
       ELSE IF r.c = "?"
       THEN /\ Exit(EXIT_FAILURE, "getopt")
            /\ UNCHANGED option
       ELSE /\ option' = opt
            /\ pc' = after
            /\ UNCHANGED <<exit_status, diag>>
    /\ UNCHANGED <<prog, argv0, shotVars>>

\* Lines 112-125.
DiscoverOption ==
    /\ prog = "lxi"
    /\ pc = "discover"
    /\ LET r == getopt_long(argv, optind, gs, DiscoverOptstring,
                            DiscoverLongOptions)
       IN  OptionStep(r, DiscoverSwitch(option, r.c, r.optarg), "discover")

\* Lines 143-177: the first call, before the loop, and the first iteration.
ScpiFirstOption ==
    /\ prog = "lxi"
    /\ pc = "scpi_first"
    /\ LET r == getopt_long(argv, optind, gs, ScpiOptstringFirst,
                            ScpiLongOptions)
       IN  OptionStep(r, ScpiSwitch(option, r.c, r.optarg), "scpi")

\* Lines 178 and 145-177: the call at the end of an iteration, and the next.
ScpiNextOption ==
    /\ prog = "lxi"
    /\ pc = "scpi"
    /\ LET r == getopt_long(argv, optind, gs, ScpiOptstringNext,
                            ScpiLongOptions)
       IN  OptionStep(r, ScpiSwitch(option, r.c, r.optarg), "scpi")

\* Lines 193-211: 'v' and 'h' print and exit with success.
GlobalOption ==
    /\ prog = "lxi"
    /\ pc = "global"
    /\ LET r == getopt_long(argv, optind, gs, GlobalOptstring,
                            GlobalLongOptions)
       IN  /\ argv' = r.argv
           /\ optind' = r.optind
           /\ gs' = r.gs
           /\ CASE r.c = "-1" -> /\ pc' = "inline_command"
                                 /\ UNCHANGED <<exit_status, diag>>
                [] r.c = "v" -> Exit(EXIT_SUCCESS, "version")
                [] r.c = "h" -> Exit(EXIT_SUCCESS, "help")
                [] OTHER -> Exit(EXIT_FAILURE, "getopt")
    /\ UNCHANGED <<prog, argv0, option, shotVars>>

\* TakesInlineCommand without its test of the command.
TakesInlineCommandAnyCommand(opt, oi, argc) == oi # argc

\* Line 214: a positional argument is taken as the SCPI command.
TakesInlineCommand(opt, oi, argc) == opt.command = SCPI /\ oi # argc

\* Line 217.
MissingIp(opt) == Len(opt.ip) = 0

\* Lines 214-222.
InlineCommand ==
    /\ prog = "lxi"
    /\ pc = "inline_command"
    /\ IF TakesInlineCommand(option, optind, Argc(argv))
       THEN /\ option' = [option EXCEPT
                  !.scpi_command = strncpy(Arg(argv, optind), StrncpyMax)]
            /\ optind' = optind + 1
            /\ IF MissingIp(option)
               THEN Exit(EXIT_FAILURE, "No IP address specified")
               ELSE /\ pc' = "unknown_arguments"
                    /\ UNCHANGED <<exit_status, diag>>
       ELSE /\ pc' = "unknown_arguments"
            /\ UNCHANGED <<optind, option, exit_status, diag>>
    /\ UNCHANGED <<prog, argv0, argv, gs, shotVars>>

\* HasUnknownArguments, off by one.
HasUnknownArgumentsOffByOne(oi, argc) == oi + 1 < argc

\* Line 225.
HasUnknownArguments(oi, argc) == oi < argc

\* Lines 225-233: the leftover arguments are printed one by one, then the
\* process exits; without any, parse_options returns.
UnknownArguments ==
    /\ prog = "lxi"
    /\ pc = "unknown_arguments"
    /\ IF HasUnknownArguments(optind, Argc(argv))
       THEN /\ optind' = Argc(argv)
            /\ Exit(EXIT_FAILURE, "Unknown arguments")
       ELSE /\ pc' = "returned"
            /\ UNCHANGED <<optind, exit_status, diag>>
    /\ UNCHANGED <<prog, argv0, argv, gs, option, shotVars>>

(***************************************************************************)
(* src/rigol_1000z_screenshot.c                                            *)
(*                                                                         *)
(* The code reads no return value of liblxi and checks neither fopen nor   *)
(* an index.  Where its behaviour is undefined the model takes every       *)
(* outcome a build can show: atoi(&c) reads the bytes behind c (BehindC), a*)
(* length that lxi_receive did not set holds anything (Uninitialized), and *)
(* an access outside response, or through a null FILE pointer, either ends *)
(* the process with SIGSEGV or goes on with bytes that are not the reply's.*)
(***************************************************************************)
Crash == Exit(128 + 11, "Segmentation fault")

\* Lines 83-92: main up to the call of capture_screenshot.
Main ==
    /\ prog = "shot"
    /\ pc = "main"
    /\ IF Argc(argv0) # 3
       THEN Exit(EXIT_FAILURE, "usage")
       ELSE /\ pc' = "lxi_connect"
            /\ UNCHANGED <<exit_status, diag>>
    /\ UNCHANGED <<prog, argv0, lxiVars, shotVars>>

\* Line 58: device = lxi_connect(ip).
Connect ==
    /\ prog = "shot"
    /\ pc = "lxi_connect"
    /\ \E ok \in BOOLEAN :
          /\ device' = IF ok THEN 0 ELSE LXI_ERROR
          /\ io' = [io EXCEPT !.connect = IF ok THEN "ok" ELSE "error"]
    /\ pc' = "lxi_send"
    /\ UNCHANGED <<prog, argv0, exit_status, diag, lxiVars, response, length,
                   n, response_p, wire, file>>

\* Line 59: lxi_send(device, command, strlen(command), timeout); it fails
\* on a device that is no connection.
Send ==
    /\ prog = "shot"
    /\ pc = "lxi_send"
    /\ \E ok \in BOOLEAN :
          /\ ok => device # LXI_ERROR
          /\ io' = [io EXCEPT !.send = IF ok THEN "ok" ELSE "error"]
    /\ pc' = "lxi_receive"
    /\ UNCHANGED <<prog, argv0, exit_status, diag, lxiVars, device, response,
                   length, n, response_p, wire, file>>

\* Line 60: lxi_receive(device, response, &length, timeout) stores the
\* reply and its length, or fails (a timeout, no connection) and stores
\* nothing.  The instrument replies only to a query that reached it.
Receive ==
    /\ prog = "shot"
    /\ pc = "lxi_receive"
    /\ \/ /\ device # LXI_ERROR
          /\ io.send = "ok"
          /\ \E w \in Replies :
                /\ wire' = w
                /\ response' = [k \in DOMAIN response |->
                                  IF k < Len(w) THEN w[k + 1] ELSE response[k]]
                /\ length' = Len(w)
          /\ io' = [io EXCEPT !.receive = "ok"]
       \/ /\ io' = [io EXCEPT !.receive = "error"]
          /\ UNCHANGED <<wire, response, length>>
    /\ pc' = "strip_header"
    /\ UNCHANGED <<prog, argv0, exit_status, diag, lxiVars, device, n,
                   response_p, file>>

\* Line 66: the bytes of the header, n + 2.
HeaderSize(k) == k + 2

\* Lines 63-67: c = response[1]; n = atoi(&c); response_p = response + n+2;
\* length -= n+2.  c is one char and no string: atoi reads on behind it.
StripHeader ==
    /\ prog = "shot"
    /\ pc = "strip_header"
    /\ \E behind \in BehindC :
          LET k == atoi(<<response[1]>> \o behind)
          IN  /\ n' = k
              /\ response_p' = HeaderSize(k)
              /\ length' = length - HeaderSize(k)
    /\ pc' = "strip_terminator"
    /\ UNCHANGED <<prog, argv0, exit_status, diag, lxiVars, device, response,
                   io, wire, file>>

\* Line 70: the index that is set to 0.
TerminatorIndex(len) == len

\* Lines 70-71: response[length] = 0; length--.
StripTerminator ==
    /\ prog = "shot"
    /\ pc = "strip_terminator"
    /\ LET k == TerminatorIndex(length)
       IN  IF k \in DOMAIN response
           THEN /\ response' = [response EXCEPT ![k] = "NUL"]
                /\ length' = length - 1
                /\ pc' = "file_dump"
                /\ UNCHANGED <<exit_status, diag>>
           ELSE \/ /\ Crash
                   /\ UNCHANGED <<response, length>>
                \/ /\ length' = length - 1
                   /\ pc' = "file_dump"
                   /\ UNCHANGED <<response, exit_status, diag>>
    /\ UNCHANGED <<prog, argv0, lxiVars, device, n, response_p, io, wire, file>>

\* fwrite(data, 1, length, fp) with data = response + p: the bytes written
\* when all of them lie in response.
Written(buf, p, len) == [k \in 1..len |-> buf[p + k - 1]]

InResponse(p, len) ==
    p >= 0 /\ len >= 0 /\ p + len <= LXI_MESSAGE_LENGTH_MAX

\* Lines 74 and 39-46: file_dump(response_p, length, filename).  fopen's
\* result is not checked.
FileDump ==
    /\ prog = "shot"
    /\ pc = "file_dump"
    /\ \/ /\ Crash              \* fopen returned NULL, fwrite uses it
          /\ UNCHANGED file
       \/ /\ InResponse(response_p, length)
          /\ file' = [exists |-> TRUE,
                      data |-> Written(response, response_p, length)]
          /\ pc' = "saved"
          /\ UNCHANGED <<exit_status, diag>>
       \/ /\ ~InResponse(response_p, length)
          /\ \/ /\ Crash
                /\ file' = [exists |-> TRUE, data |-> <<>>]
             \/ /\ file' = [exists |-> TRUE, data |-> <<"GARBAGE">>]
                /\ pc' = "saved"
                /\ UNCHANGED <<exit_status, diag>>
    /\ UNCHANGED <<prog, argv0, lxiVars, device, response, length, n,
                   response_p, io, wire>>

\* Lines 76-78 and 94-96: the message, return 0, and main returns it.
Saved ==
    /\ prog = "shot"
    /\ pc = "saved"
    /\ Exit(0, "Saved screenshot")
    /\ UNCHANGED <<prog, argv0, lxiVars, shotVars>>

Next ==
    \/ ParseEntry
    \/ DiscoverOption
    \/ ScpiFirstOption
    \/ ScpiNextOption
    \/ GlobalOption
    \/ InlineCommand
    \/ UnknownArguments
    \/ Main
    \/ Connect
    \/ Send
    \/ Receive
    \/ StripHeader
    \/ StripTerminator
    \/ FileDump
    \/ Saved

Spec == Init /\ [][Next]_vars

(***************************************************************************)
(* The command line as print_help documents it (lines 55-77), read without *)
(* getopt: the items of an argument list are its flags (with their values),*)
(* its positional arguments, and what is neither ("bad": a flag the        *)
(* command does not have, or a flag whose value is missing).               *)
(***************************************************************************)
FlagLetter(tok) ==
    CASE tok \in {T_i, T_ip} -> "i"
      [] tok \in {T_t, T_timeout} -> "t"
      [] tok \in {T_x, T_dump_hex} -> "x"
      [] tok \in {T_f, T_dump_file} -> "f"
      [] tok \in {T_a, T_interactive} -> "a"
      [] tok \in {T_r, T_run_script} -> "r"
      [] tok \in {T_v} -> "v"
      [] tok \in {T_help} -> "h"
      [] OTHER -> "?"

Item(kind, flag, value) == [kind |-> kind, flag |-> flag, value |-> value]

RECURSIVE DocItems(_, _, _, _)
DocItems(args, i, valueFlags, boolFlags) ==
    IF i > Len(args) THEN <<>>
    ELSE LET tok == args[i]
         IN  IF tok = T_dashes
             THEN [k \in 1..(Len(args) - i) |-> Item("positional", "", args[i + k])]
             ELSE IF tok \in valueFlags
             THEN IF i < Len(args)
                  THEN <<Item("flag", FlagLetter(tok), args[i + 1])>>
                         \o DocItems(args, i + 2, valueFlags, boolFlags)
                  ELSE <<Item("bad", "", tok)>>
             ELSE IF tok \in boolFlags
             THEN <<Item("flag", FlagLetter(tok), <<>>)>>
                    \o DocItems(args, i + 1, valueFlags, boolFlags)
             ELSE IF NonOption(tok)
             THEN <<Item("positional", "", tok)>>
                    \o DocItems(args, i + 1, valueFlags, boolFlags)
             ELSE <<Item("bad", "", tok)>>
                    \o DocItems(args, i + 1, valueFlags, boolFlags)

ScpiValueFlags ==
    {T_i, T_ip, T_t, T_timeout, T_f, T_dump_file, T_r, T_run_script}

ScpiBoolFlags == {T_x, T_dump_hex, T_a, T_interactive}

FirstIs(args, tok) == Argc(args) > 1 /\ Arg(args, 1) = tok

Items(args) ==
    IF FirstIs(args, T_discover) THEN DocItems(args, 3, {T_t, T_timeout}, {})
    ELSE IF FirstIs(args, T_scpi)
    THEN DocItems(args, 3, ScpiValueFlags, ScpiBoolFlags)
    ELSE DocItems(args, 2, {}, {T_v, T_help})

IsPositional(it) == it.kind = "positional"

Positionals(args) == SelectSeq(Items(args), IsPositional)

HasBad(args) == \E k \in 1..Len(Items(args)) : Items(args)[k].kind = "bad"

HasFlag(args, letter) ==
    \E k \in 1..Len(Items(args)) :
        Items(args)[k].kind = "flag" /\ Items(args)[k].flag = letter

Ended == prog = "lxi" /\ pc \in {"exited", "returned"}

Returned == prog = "lxi" /\ pc = "returned"

NoIp == prog = "lxi" /\ pc = "exited" /\ diag = "No IP address specified"

(***************************************************************************)
(* The TMC block, as the claims describe it.                               *)
(***************************************************************************)
\* '#', a digit k, k digits that give the payload's length, the payload,
\* one terminator byte.
IsTmcBlock(w) ==
    /\ Len(w) >= 3
    /\ w[1] = "#"
    /\ IsDigit(w[2])
    /\ LET k == DigitVal(w[2])
       IN  /\ Len(w) >= k + 3
           /\ \A j \in 3..(k + 2) : IsDigit(w[j])
           /\ ParseDigits(SubSeq(w, 3, k + 2), 1, 0) = Len(w) - (k + 2) - 1

TmcPayload(w) == SubSeq(w, DigitVal(w[2]) + 3, Len(w) - 1)

\* The weaker framing C5 names: '#', a digit k, and at least k + 2 bytes and
\* a terminator.
IsTmcFramed(w) ==
    Len(w) >= 2 /\ w[1] = "#" /\ IsDigit(w[2]) /\ Len(w) >= DigitVal(w[2]) + 3

Received == prog = "shot" /\ io.receive = "ok"

(***************************************************************************)
(* C1: for every received TMC block the bytes handed to file_dump (and     *)
(* written) are exactly the payload bytes, in order, none altered by the   *)
(* terminator stripping.  Stated for the runs in which atoi read the       *)
(* digit-count byte and nothing behind it, so that what fails is the       *)
(* stripping of the terminator and not the reading of the header.          *)
(***************************************************************************)
C1_DumpIsPayload ==
    (Received /\ IsTmcBlock(wire) /\ n = DigitVal(wire[2])) =>
        /\ pc = "file_dump" =>
              /\ InResponse(response_p, length)
              /\ Written(response, response_p, length) = TmcPayload(wire)
        /\ file.exists => file.data = TmcPayload(wire)

(***************************************************************************)
(* C2: for every valid TMC block of L bytes whose digit-count byte is k,   *)
(* the payload starts at offset k + 2 and the length is L - (k + 2) - 1.   *)
(***************************************************************************)
C2_OffsetAndLength ==
    (Received /\ IsTmcBlock(wire) /\ pc = "file_dump") =>
        /\ response_p = DigitVal(wire[2]) + 2
        /\ length = Len(wire) - (DigitVal(wire[2]) + 2) - 1

(***************************************************************************)
(* C3: every scpi invocation with an inline command and no IP flag,        *)
(* whatever other scpi flags it has, ends with a non-zero status through   *)
(* the "No IP address specified" branch and through no other exit.         *)
(***************************************************************************)
ScpiInlineNoIp(args) ==
    /\ FirstIs(args, T_scpi)
    /\ ~HasBad(args)
    /\ Len(Positionals(args)) = 1
    /\ ~HasFlag(args, "i")

C3_InlineWithoutIpEndsAtNoIp ==
    (Ended /\ ScpiInlineNoIp(argv0)) =>
        (pc = "exited" /\ exit_status # 0 /\ diag = "No IP address specified")

(***************************************************************************)
(* C4: every scpi invocation built from the six documented flags, each     *)
(* with its value, in any order and form, with an IP flag, is parsed:      *)
(* parse_options returns and the configuration reflects every flag.        *)
(***************************************************************************)
ScpiWithIp(args) ==
    /\ FirstIs(args, T_scpi)
    /\ ~HasBad(args)
    /\ Len(Positionals(args)) <= 1
    /\ HasFlag(args, "i")

\* The flag item k is the last one of its flag.
LastOfFlag(items, k) ==
    /\ items[k].kind = "flag"
    /\ \A m \in (k + 1)..Len(items) :
          ~(items[m].kind = "flag" /\ items[m].flag = items[k].flag)

FieldReflects(opt, args, it) ==
    CASE it.flag = "t" -> opt.timeout = atoi(it.value)
      [] it.flag = "i" -> opt.ip = it.value
      [] it.flag = "x" -> opt.dump_hex
      [] it.flag = "f" -> /\ opt.dump_file
                          /\ ~HasFlag(args, "r") => opt.filename = it.value
      [] it.flag = "a" -> opt.interactive
      [] it.flag = "r" -> /\ opt.run_script
                          /\ ~HasFlag(args, "f") => opt.filename = it.value
      [] OTHER -> FALSE

Reflects(opt, args) ==
    /\ opt.command = SCPI
    /\ \A k \in 1..Len(Items(args)) :
          LastOfFlag(Items(args), k) => FieldReflects(opt, args, Items(args)[k])
    /\ Len(Positionals(args)) = 1 =>
          opt.scpi_command = Positionals(args)[1].value

C4_ScpiFlagsAreParsed ==
    (Ended /\ ScpiWithIp(argv0)) => (pc = "returned" /\ Reflects(option, argv0))

(***************************************************************************)
(* C5: a reply that is not TMC-framed is rejected: nothing is written, no  *)
(* success is reported, and the decoder's offset and length never leave    *)
(* the received bytes.                                                     *)
(***************************************************************************)
C5_MalformedIsRejected ==
    (Received /\ ~IsTmcFramed(wire)) =>
        /\ ~file.exists
        /\ diag # "Saved screenshot"
        /\ pc \in {"strip_terminator", "file_dump", "saved"} =>
              /\ response_p <= Len(wire)
              /\ length >= 0
              /\ response_p + length <= Len(wire)

(***************************************************************************)
(* C6: a failure of connect, send or receive is terminal: no later step    *)
(* runs, no file is written, no success is reported, the exit status is    *)
(* not 0; status 0 is reached only when every step succeeded.              *)
(***************************************************************************)
TransportFailed ==
    io.connect = "error" \/ io.send = "error" \/ io.receive = "error"

C6_TransportFailureIsTerminal ==
    prog = "shot" =>
        /\ io.connect = "error" => (io.send = "none" /\ io.receive = "none")
        /\ io.send = "error" => io.receive = "none"
        /\ TransportFailed =>
              /\ pc \notin {"strip_header", "strip_terminator", "file_dump",
                            "saved"}
              /\ ~file.exists
              /\ diag # "Saved screenshot"
              /\ pc = "exited" => exit_status # 0
        /\ (pc = "exited" /\ exit_status = 0) =>
              (io = [connect |-> "ok", send |-> "ok", receive |-> "ok"]
                 /\ file.exists)

(***************************************************************************)
(* C7.  An argument list has a token parse_options does not account for    *)
(* when it has a flag the command lacks (or a flag without its value), a   *)
(* second positional argument, or a positional argument under discover.    *)
(***************************************************************************)
Unaccounted(args) ==
    \/ HasBad(args)
    \/ Len(Positionals(args)) > 1
    \/ FirstIs(args, T_discover) /\ Len(Positionals(args)) >= 1

AllConsumed ==
    /\ optind = Argc(argv)
    /\ ~Unaccounted(argv0)
    /\ Len(Positionals(argv0)) = 1 =>
          /\ option.command = SCPI
          /\ option.scpi_command = Positionals(argv0)[1].value

(***************************************************************************)
(* C7, as claimed: parse_options returns only with every argument consumed *)
(* (optind = argc, at most one positional argument, under SCPI alone, as   *)
(* the SCPI command), and an argument list with an unaccounted token ends  *)
(* in an exit with a non-zero status.                                      *)
(***************************************************************************)
C7_UnaccountedExitsNonZero ==
    /\ Returned => AllConsumed
    /\ (Ended /\ Unaccounted(argv0)) => (pc = "exited" /\ exit_status # 0)

(***************************************************************************)
(* C7, amended: parse_options returns only with every argument consumed,   *)
(* and an argument list with an unaccounted token ends in an exit, whose   *)
(* status is non-zero unless the first argument is no sub-command and      *)
(* getopt_long came to a -v/--version or -h/--help before that token: then *)
(* the version or the help is printed and the status is 0.                 *)
(***************************************************************************)
C7_ReturnsOnlyWithAllConsumed ==
    /\ Returned => AllConsumed
    /\ (Ended /\ Unaccounted(argv0)) =>
          /\ pc = "exited"
          /\ \/ exit_status # 0
             \/ /\ ~FirstIs(argv0, T_discover)
                /\ ~FirstIs(argv0, T_scpi)
                /\ diag \in {"help", "version"}
                /\ \E k \in 1..(Argc(argv0) - 1) :
                      Arg(argv0, k) \in {T_v, T_help}

\* parse_options has returned for `scpi ... <command>`, the positional
\* argument taken as the SCPI command.
C7_Witness ==
    /\ Returned
    /\ FirstIs(argv0, T_scpi)
    /\ Len(Positionals(argv0)) = 1
    /\ option.scpi_command = V_rst
    /\ optind = Argc(argv)

(***************************************************************************)
(* C8: when parse_options returns, the timeout is at least 1, and 1 when   *)
(* no timeout flag was given.                                              *)
(***************************************************************************)
C8_TimeoutIsPositive ==
    Returned =>
        /\ option.timeout >= 1
        /\ ~HasFlag(argv0, "t") => option.timeout = 1

(***************************************************************************)
(* C9, as claimed: the "No IP address specified" exit is taken only by an  *)
(* invocation whose first argument is scpi, with a positional argument     *)
(* left after the flags and an empty IP.                                   *)
(***************************************************************************)
C9_NoIpOnlyUnderScpi ==
    NoIp =>
        /\ FirstIs(argv0, T_scpi)
        /\ Len(Positionals(argv0)) >= 1
        /\ option.ip = <<>>

(***************************************************************************)
(* C9, amended: the "No IP address specified" exit is taken only when the  *)
(* command is SCPI, which it is after a first argument `scpi` and also,    *)
(* by default, after a first argument that is neither `discover` nor       *)
(* `scpi`; a positional argument was left after the flags and has become   *)
(* the SCPI command, the IP is empty, and the status is EXIT_FAILURE.  It  *)
(* is never taken under discover nor without a positional argument.        *)
(***************************************************************************)
C9_NoIpOnlyForScpiCommand ==
    NoIp =>
        /\ option.command = SCPI
        /\ ~FirstIs(argv0, T_discover)
        /\ Len(Positionals(argv0)) >= 1
        /\ option.scpi_command = Positionals(argv0)[1].value
        /\ option.ip = <<>>
        /\ exit_status = EXIT_FAILURE

\* The exit is taken without the sub-command scpi: `lxi *RST`.
C9_Witness ==
    /\ NoIp
    /\ ~FirstIs(argv0, T_scpi)
    /\ option.scpi_command = V_rst

(***************************************************************************)
(* C10: no configuration with both dump_file and run_script set is ever    *)
(* returned.                                                               *)
(***************************************************************************)
C10_DumpFileAndRunScriptExclude ==
    Returned => ~(option.dump_file /\ option.run_script)

=============================================================================
